---- MODULE Spec2Model ----
(***************************************************************************)
(* Model of compiler/rustc_middle/src/hir/mod.rs: the HIR wrapper types    *)
(* (IndexedHir, Owner, OwnerNodes, AttributeMap), their HashStable         *)
(* implementations, and the query providers installed by `provide`.        *)
(*                                                                         *)
(* The state is the data the providers read through `tcx` (the definition  *)
(* tables, the per-owner result of `index_hir`, the crate's `owners`       *)
(* vector) together with the latest provider invocation.  Each provider    *)
(* is an operator; each invocation of a provider is an action.             *)
(***************************************************************************)
EXTENDS Integers, Sequences, FiniteSets, TLC

\* ------------------------------------------------------------------ bounds
NumDefs == 3
MaxLocalId == 2
NumFingerprints == 2
MaxParams == 2

DefIds == 0 .. (NumDefs - 1)
LocalIds == 0 .. MaxLocalId
Fingerprints == 0 .. (NumFingerprints - 1)
Idents == {"a", "b"}
AttrLists == {<< >>, <<"inline", "cold">>}

\* ------------------------------------------------------- values and helpers
\* Option<T>: None is the empty sequence, Some(x) the one-element sequence.
None == << >>
Some(x) == <<x>>
Unwrapped(o) == o[1]
Option(S) == {None} \cup {Some(x) : x \in S}

\* The outcome of running a provider: a returned value or a fatal termination
\* (unwrap on None, index out of bounds, span_bug!).
Panic == [panic |-> TRUE]
Ok(v) == [panic |-> FALSE, val |-> v]
\* What each provider returns: Option<Owner>, Option<&OwnerNodes>, HirId,
\* &[Attribute], &[Ident]; and what hash_stable leaves in the hasher.
OkOwner(v) == [panic |-> FALSE, owner |-> v]
OkOwnerNodes(v) == [panic |-> FALSE, owner_nodes |-> v]
OkHirId(v) == [panic |-> FALSE, hir_id |-> v]
OkAttrs(v) == [panic |-> FALSE, attrs |-> v]
OkIdents(v) == [panic |-> FALSE, idents |-> v]
OkHasher(v) == [panic |-> FALSE, hasher |-> v]

SeqsUpTo(S, n) == UNION {[1 .. k -> S] : k \in 0 .. n}

HirIdOf(o, l) == [owner |-> o, local_id |-> l]
CRATE_DEF_ID == 0
CRATE_HIR_ID == HirIdOf(CRATE_DEF_ID, 0)

\* IndexVec indexing: LocalId k is position k + 1 of the sequence.
InBounds(vec, k) == k + 1 \in 1 .. Len(vec)
At(vec, k) == vec[k + 1]

\* ---------------------------------------------------------------- HIR nodes
OwnerKinds == {"Item", "ForeignItem", "TraitItem", "ImplItem", "Crate"}
NodeKinds == OwnerKinds \cup {"Expr"}

\* A node: its kind, the idents of TraitFn::Required (None for every other
\* node), and the id of the body it owns (None when it owns none).
MkNode(k, r, b) == [kind |-> k, required |-> r, body |-> b]

ParentedNode(p, n) == [parent |-> p, node |-> n]

MkOwnerNodes(h, nh, ns, bs) == [hash |-> h, node_hash |-> nh, nodes |-> ns, bodies |-> bs]

MkIndexedHir(ns, par) == [nodes |-> ns, parenting |-> par]

MkBody(ps) == [params |-> ps]

VARIABLES
    def_parent,         \* definitions.def_key(id).parent
    def_id_to_hir_id,   \* definitions.local_def_id_to_hir_id(id)
    hir_index,          \* tcx.index_hir(id): Option<&IndexedHir>
    owners,             \* tcx.hir_crate(()).owners[id]: Option<OwnerInfo>
    call                \* the latest provider invocation and its outcome

vars == <<def_parent, def_id_to_hir_id, hir_index, owners, call>>
data == <<def_parent, def_id_to_hir_id, hir_index, owners>>

\* ------------------------------------------------------- lookups through tcx
index_hir(id) == hir_index[id]

local_def_id_to_hir_id(def_id) == def_id_to_hir_id[def_id]

\* Node::as_owner: the OwnerNode of an owner-kind node, None for any other.
as_owner(node) ==
    IF node.kind \in OwnerKinds
    THEN Some([owner_kind |-> node.kind, required |-> node.required, body |-> node.body])
    ELSE None

\* Map::find: the node stored for a HirId, None when the owner was not
\* indexed or the slot is out of range or empty.
hir_find(hir_id) ==
    LET indexed == index_hir(hir_id.owner) IN
    IF indexed = None THEN None
    ELSE LET nodes == Unwrapped(indexed).nodes.nodes IN
         IF ~InBounds(nodes, hir_id.local_id) THEN None
         ELSE IF At(nodes, hir_id.local_id) = None THEN None
         ELSE Some(Unwrapped(At(nodes, hir_id.local_id)).node)

\* Map::get: find, fatal when there is no node.
hir_get(hir_id) ==
    LET found == hir_find(hir_id) IN
    IF found = None THEN Panic ELSE Ok(Unwrapped(found))

\* Map::maybe_body_owned_by: the body id associated with the node, if any.
maybe_body_owned_by(hir_id) ==
    LET found == hir_find(hir_id) IN
    IF found = None THEN None ELSE Unwrapped(found).body

\* Map::body_param_names: the ident bound by each parameter pattern of the
\* body, in declaration order.
body_param_names(body_id) ==
    LET indexed == index_hir(body_id.owner) IN
    IF indexed = None THEN Panic
    ELSE LET bodies == Unwrapped(indexed).nodes.bodies IN
         IF ~InBounds(bodies, body_id.local_id) THEN Panic
         ELSE IF At(bodies, body_id.local_id) = None THEN Panic
         ELSE LET params == Unwrapped(At(bodies, body_id.local_id)).params IN
              OkIdents([i \in 1 .. Len(params) |-> params[i].binding])

\* ------------------------------------------------------------ wrapper types
MkOwner(n, nh) == [node |-> n, node_hash |-> nh]

\* Fingerprint::hash_stable: the fingerprint is written to the hasher.
Fingerprint_hash_stable(fp, hasher) == Append(hasher, fp)

\* Variant: the node is hashed as well.
Owner_hash_stable_WithNode(self, hasher) ==
    Fingerprint_hash_stable(self.node_hash, Append(hasher, self.node))

\* impl HashStable for Owner: only node_hash is hashed.
Owner_hash_stable(self, hasher) ==
    Fingerprint_hash_stable(self.node_hash, hasher)

\* impl HashStable for OwnerNodes: only hash is hashed.
OwnerNodes_hash_stable(self, hasher) ==
    Fingerprint_hash_stable(self.hash, hasher)

\* AttributeMap: FALLBACK is the empty BTreeMap.
FALLBACK == [k \in {} |-> << >>]

\* Variant: the owner info is ignored.
AttributeMap_new_AlwaysFallback(owner_info) == [map |-> FALLBACK]

AttributeMap_new(owner_info) ==
    [map |-> IF owner_info = None THEN FALLBACK ELSE Unwrapped(owner_info).attrs]

AttributeMap_get(self, id) ==
    IF id \in DOMAIN self.map THEN self.map[id] ELSE << >>

\* ---------------------------------------------------------------- providers
\* Variant: the summary carries the full hash instead of node_hash.
hir_owner_FullHash(id) ==
    LET owner == index_hir(id) IN
    IF owner = None THEN OkOwner(None)
    ELSE LET nodes == Unwrapped(owner).nodes.nodes IN
         IF ~InBounds(nodes, 0) THEN Panic
         ELSE IF At(nodes, 0) = None THEN Panic
         ELSE LET node == as_owner(Unwrapped(At(nodes, 0)).node) IN
              IF node = None THEN Panic
              ELSE OkOwner(Some(MkOwner(Unwrapped(node), Unwrapped(owner).nodes.hash)))

\* Variant: a missing or non-owner root node gives None instead of a panic.
hir_owner_Lenient(id) ==
    LET owner == index_hir(id) IN
    IF owner = None THEN OkOwner(None)
    ELSE LET nodes == Unwrapped(owner).nodes.nodes IN
         IF ~InBounds(nodes, 0) THEN OkOwner(None)
         ELSE IF At(nodes, 0) = None THEN OkOwner(None)
         ELSE LET node == as_owner(Unwrapped(At(nodes, 0)).node) IN
              IF node = None THEN OkOwner(None)
              ELSE OkOwner(Some(MkOwner(Unwrapped(node), Unwrapped(owner).nodes.node_hash)))

hir_owner(id) ==
    LET owner == index_hir(id) IN
    IF owner = None THEN OkOwner(None)
    ELSE LET nodes == Unwrapped(owner).nodes.nodes IN
         IF ~InBounds(nodes, 0) THEN Panic
         ELSE IF At(nodes, 0) = None THEN Panic
         ELSE LET node == as_owner(Unwrapped(At(nodes, 0)).node) IN
              IF node = None THEN Panic
              ELSE OkOwner(Some(MkOwner(Unwrapped(node), Unwrapped(owner).nodes.node_hash)))

hir_owner_nodes(id) ==
    LET indexed == index_hir(id) IN
    IF indexed = None THEN OkOwnerNodes(None) ELSE OkOwnerNodes(Some(Unwrapped(indexed).nodes))

\* Variant: the parenting table is not consulted.
hir_owner_parent_NoRemap(id) ==
    LET parent == def_parent[id] IN
    IF parent = None THEN OkHirId(CRATE_HIR_ID)
    ELSE LET parent_hir_id == local_def_id_to_hir_id(Unwrapped(parent))
             indexed == index_hir(parent_hir_id.owner)
         IN  IF indexed = None THEN Panic ELSE OkHirId(parent_hir_id)

\* Variant: an id without a parenting entry gets the crate root id.
hir_owner_parent_RootFallback(id) ==
    LET parent == def_parent[id] IN
    IF parent = None THEN OkHirId(CRATE_HIR_ID)
    ELSE LET parent_hir_id == local_def_id_to_hir_id(Unwrapped(parent))
             indexed == index_hir(parent_hir_id.owner)
         IN  IF indexed = None THEN Panic
             ELSE LET local_id == Unwrapped(indexed).parenting[id] IN
                  IF local_id # None
                  THEN OkHirId([parent_hir_id EXCEPT !.local_id = Unwrapped(local_id)])
                  ELSE OkHirId(CRATE_HIR_ID)

hir_owner_parent(id) ==
    LET parent == def_parent[id] IN
    IF parent = None THEN OkHirId(CRATE_HIR_ID)
    ELSE LET def_id == Unwrapped(parent)
             parent_hir_id == local_def_id_to_hir_id(def_id)
             indexed == index_hir(parent_hir_id.owner)
         IN  IF indexed = None THEN Panic
             ELSE LET local_id == Unwrapped(indexed).parenting[id] IN
                  IF local_id # None
                  THEN OkHirId([parent_hir_id EXCEPT !.local_id = Unwrapped(local_id)])
                  ELSE OkHirId(parent_hir_id)

\* Variant: the remapping is written through to the definitions table.
hir_owner_parent_definitions_InPlace(id) ==
    LET parent == def_parent[id]
        result == hir_owner_parent(id)
    IN  IF parent = None \/ result.panic THEN def_id_to_hir_id
        ELSE [def_id_to_hir_id EXCEPT ![Unwrapped(parent)] = result.hir_id]

\* The definitions table after hir_owner_parent(id) ran: parent_hir_id is a
\* local copy (HirId is Copy), so the remapping never reaches the table.
hir_owner_parent_definitions(id) == def_id_to_hir_id

hir_attrs(id) == AttributeMap_new(owners[id])

\* Variant: the first parameter is skipped.
fn_arg_names_DropFirst(id) ==
    LET hir_id == local_def_id_to_hir_id(id)
        body_id == maybe_body_owned_by(hir_id)
    IN  IF body_id # None
        THEN LET names == body_param_names(Unwrapped(body_id)) IN
             IF names.panic \/ names.idents = << >> THEN names ELSE OkIdents(Tail(names.idents))
        ELSE LET node == hir_get(hir_id) IN
             IF node.panic THEN Panic
             ELSE IF node.val.kind = "TraitItem" /\ node.val.required # None
             THEN LET idents == Unwrapped(node.val.required) IN
                  IF idents = << >> THEN OkIdents(idents) ELSE OkIdents(Tail(idents))
             ELSE Panic

\* Variant: an unexpected item gives no names instead of span_bug!.
fn_arg_names_Empty(id) ==
    LET hir_id == local_def_id_to_hir_id(id)
        body_id == maybe_body_owned_by(hir_id)
    IN  IF body_id # None
        THEN body_param_names(Unwrapped(body_id))
        ELSE LET node == hir_get(hir_id) IN
             IF node.panic THEN OkIdents(<< >>)
             ELSE IF node.val.kind = "TraitItem" /\ node.val.required # None
             THEN OkIdents(Unwrapped(node.val.required))
             ELSE OkIdents(<< >>)

fn_arg_names(id) ==
    LET hir_id == local_def_id_to_hir_id(id)
        body_id == maybe_body_owned_by(hir_id)
    IN  IF body_id # None
        THEN body_param_names(Unwrapped(body_id))
        ELSE LET node == hir_get(hir_id) IN
             IF node.panic THEN Panic
             ELSE IF node.val.kind = "TraitItem" /\ node.val.required # None
             THEN OkIdents(Unwrapped(node.val.required))
             ELSE Panic

\* ------------------------------------------------------------ initial states
\* The crate every initial state starts from: each definition is an owner
\* whose parent is the crate root, indexed with its own node at LocalId 0,
\* with an empty attribute table.
DefaultNode(d) == MkNode(IF d = CRATE_DEF_ID THEN "Crate" ELSE "Item", None, None)

NoParenting == [n \in DefIds |-> None]

DefaultOwnerNodes(d) ==
    MkOwnerNodes(0, 0, <<Some(ParentedNode(0, DefaultNode(d)))>>, <<None>>)

DefaultParent == [d \in DefIds |-> IF d = CRATE_DEF_ID THEN None ELSE Some(CRATE_DEF_ID)]
DefaultHirIds == [d \in DefIds |-> HirIdOf(d, 0)]
DefaultIndex == [d \in DefIds |-> Some(MkIndexedHir(DefaultOwnerNodes(d), NoParenting))]
DefaultOwners == [d \in DefIds |-> Some([attrs |-> FALLBACK])]

\* The HirIds a definition p can have: its own owner node, or (for a
\* definition that is not an owner, such as a closure) a slot of an earlier
\* owner.  The crate root is always CRATE_HIR_ID.
ParentHirIds(p) ==
    IF p = CRATE_DEF_ID THEN {CRATE_HIR_ID}
    ELSE {HirIdOf(p, 0)} \cup {HirIdOf(o, k) : o \in 0 .. (p - 1), k \in 1 .. MaxLocalId}

\* Crates that differ in one nested owner n: its definition parent p, the
\* HirId of p, the owner and LocalId n is attached at (if any), and whether
\* index_hir has a result for the owner of p's HirId.
InitParents ==
    \E n \in DefIds \ {CRATE_DEF_ID} :
    \E p \in 0 .. (n - 1) :
    \E hid \in ParentHirIds(p) :
    \E att \in Option((DefIds \ {n}) \X LocalIds) :
    \E absent \in Option({hid.owner}) :
        /\ def_parent = [DefaultParent EXCEPT ![n] = Some(p)]
        /\ def_id_to_hir_id = [DefaultHirIds EXCEPT ![p] = hid]
        /\ hir_index =
              [o \in DefIds |->
                  IF absent = Some(o) THEN None
                  ELSE Some(MkIndexedHir(DefaultOwnerNodes(o),
                          [m \in DefIds |->
                              IF m = n /\ att # None /\ Unwrapped(att)[1] = o
                              THEN Some(Unwrapped(att)[2]) ELSE None]))]
        /\ owners = DefaultOwners

Pats(ps) == [i \in 1 .. Len(ps) |-> [binding |-> ps[i]]]

\* The node and body vectors index_hir may hold for owner o: a root that
\* owns a body (the body's value expression at LocalId 1, the body in the
\* sidecar), a required trait method, a root without a body, an empty root
\* slot and an empty node vector.
NodeVectors(o) ==
    {[nodes |-> <<Some(ParentedNode(0, MkNode(k, None, Some(HirIdOf(o, 1))))),
                  Some(ParentedNode(0, MkNode("Expr", None, None)))>>,
      bodies |-> <<None, Some(MkBody(Pats(ps)))>>] :
        k \in {"Item", "ImplItem", "TraitItem", "Expr"}, ps \in SeqsUpTo(Idents, MaxParams)}
    \cup
    {[nodes |-> <<Some(ParentedNode(0, MkNode("TraitItem", Some(ids), None)))>>,
      bodies |-> <<None>>] : ids \in SeqsUpTo(Idents, MaxParams)}
    \cup
    {[nodes |-> <<Some(ParentedNode(0, MkNode(k, None, None)))>>,
      bodies |-> <<None>>] : k \in NodeKinds}
    \cup
    {[nodes |-> <<None>>, bodies |-> <<None>>], [nodes |-> << >>, bodies |-> << >>]}

\* The OwnerNodes index_hir may hold for owner o: every node vector under the
\* default fingerprints, and every pair of fingerprints over the default root
\* and over a function item with either of two bodies.
OwnerNodesOf(o) ==
    {MkOwnerNodes(0, 0, v.nodes, v.bodies) : v \in NodeVectors(o)}
    \cup
    {MkOwnerNodes(h, nh, v.nodes, v.bodies) :
        h \in Fingerprints, nh \in Fingerprints,
        v \in {w \in NodeVectors(o) :
                 \/ w.nodes = DefaultOwnerNodes(o).nodes
                 \/ /\ Len(w.bodies) > 1
                    /\ Unwrapped(w.nodes[1]).node.kind = "Item"
                    /\ Len(Unwrapped(w.bodies[2]).params) = 1}}

\* Crates that differ in what index_hir holds for one owner.
InitIndex ==
    \E o \in DefIds :
    \E indexed \in Option({MkIndexedHir(ns, NoParenting) : ns \in OwnerNodesOf(o)}) :
        /\ def_parent = DefaultParent
        /\ def_id_to_hir_id = DefaultHirIds
        /\ hir_index = [DefaultIndex EXCEPT ![o] = indexed]
        /\ owners = DefaultOwners

AttrMaps == UNION {[K -> AttrLists] : K \in SUBSET LocalIds}

\* Crates that differ in the owner info (the attribute table) of one owner.
InitAttrs ==
    \E o \in DefIds :
    \E info \in Option({[attrs |-> m] : m \in AttrMaps}) :
        /\ def_parent = DefaultParent
        /\ def_id_to_hir_id = DefaultHirIds
        /\ hir_index = DefaultIndex
        /\ owners = [DefaultOwners EXCEPT ![o] = info]

NoCall == [provider |-> "none", key |-> << >>, result |-> [panic |-> FALSE]]

Init ==
    /\ InitParents \/ InitIndex \/ InitAttrs
    /\ call = NoCall

\* ------------------------------------------------------------------ actions
Invocation(p, k, r) == [provider |-> p, key |-> k, result |-> r]

Call_hir_owner(id) ==
    /\ call' = Invocation("hir_owner", <<id>>, hir_owner(id))
    /\ UNCHANGED data

Call_hir_owner_nodes(id) ==
    /\ call' = Invocation("hir_owner_nodes", <<id>>, hir_owner_nodes(id))
    /\ UNCHANGED data

Call_hir_owner_parent(id) ==
    /\ call' = Invocation("hir_owner_parent", <<id>>, hir_owner_parent(id))
    /\ def_id_to_hir_id' = hir_owner_parent_definitions(id)
    /\ UNCHANGED <<def_parent, hir_index, owners>>

\* tcx.hir_attrs(id).get(local_id)
Call_hir_attrs(id, local_id) ==
    /\ call' = Invocation("hir_attrs", <<id, local_id>>,
                          OkAttrs(AttributeMap_get(hir_attrs(id), local_id)))
    /\ UNCHANGED data

Call_fn_arg_names(id) ==
    /\ call' = Invocation("fn_arg_names", <<id>>, fn_arg_names(id))
    /\ UNCHANGED data

\* The Owner returned by hir_owner(id) is hashed into a fresh hasher.
Call_Owner_hash_stable(id) ==
    /\ ~hir_owner(id).panic
    /\ hir_owner(id).owner # None
    /\ call' = Invocation("Owner::hash_stable", <<id>>,
                          OkHasher(Owner_hash_stable(Unwrapped(hir_owner(id).owner), << >>)))
    /\ UNCHANGED data

\* The OwnerNodes returned by hir_owner_nodes(id) is hashed into a fresh hasher.
Call_OwnerNodes_hash_stable(id) ==
    /\ hir_owner_nodes(id).owner_nodes # None
    /\ call' = Invocation("OwnerNodes::hash_stable", <<id>>,
                          OkHasher(OwnerNodes_hash_stable(Unwrapped(hir_owner_nodes(id).owner_nodes), << >>)))
    /\ UNCHANGED data

Next ==
    \/ \E id \in DefIds : Call_hir_owner(id)
    \/ \E id \in DefIds : Call_hir_owner_nodes(id)
    \/ \E id \in DefIds : Call_hir_owner_parent(id)
    \/ \E id \in DefIds : \E local_id \in LocalIds : Call_hir_attrs(id, local_id)
    \/ \E id \in DefIds : Call_fn_arg_names(id)
    \/ \E id \in DefIds : Call_Owner_hash_stable(id)
    \/ \E id \in DefIds : Call_OwnerNodes_hash_stable(id)

Spec == Init /\ [][Next]_vars

\* ------------------------------------------------------------- properties
\* The key of the latest invocation.
CalledId == call.key[1]
Called(p) == call.provider = p

\* The owner that contains the definition parent of n, and n's entry in that
\* owner's parenting table (None when the owner has no index or no entry).
HasDefParent(n) == def_parent[n] # None
DefParentHirId(n) == def_id_to_hir_id[Unwrapped(def_parent[n])]
ParentOwnerIndexed(n) == hir_index[DefParentHirId(n).owner] # None
ParentingEntry(n) == Unwrapped(hir_index[DefParentHirId(n).owner]).parenting[n]

\* The slot of LocalId 0 in the index of owner o, read straight from the data.
RootSlotFilled(o) ==
    /\ hir_index[o] # None
    /\ Len(Unwrapped(hir_index[o]).nodes.nodes) >= 1
    /\ Unwrapped(hir_index[o]).nodes.nodes[1] # None
RootNode(o) == Unwrapped(Unwrapped(hir_index[o]).nodes.nodes[1]).node
RootIsOwnerKind(o) == RootSlotFilled(o) /\ RootNode(o).kind \in OwnerKinds

\* The node a definition resolves to, read straight from the data.
DefNodeExists(d) ==
    LET h == def_id_to_hir_id[d] IN
    /\ hir_index[h.owner] # None
    /\ h.local_id + 1 <= Len(Unwrapped(hir_index[h.owner]).nodes.nodes)
    /\ Unwrapped(hir_index[h.owner]).nodes.nodes[h.local_id + 1] # None
DefNode(d) ==
    LET h == def_id_to_hir_id[d] IN
    Unwrapped(Unwrapped(hir_index[h.owner]).nodes.nodes[h.local_id + 1]).node
BodyBearing(d) == DefNodeExists(d) /\ DefNode(d).body # None
RequiredSignature(d) ==
    /\ DefNodeExists(d)
    /\ DefNode(d).body = None
    /\ DefNode(d).kind = "TraitItem"
    /\ DefNode(d).required # None
BodyParams(d) ==
    LET b == Unwrapped(DefNode(d).body) IN
    Unwrapped(Unwrapped(hir_index[b.owner]).nodes.bodies[b.local_id + 1]).params

\* C1: for a nested owner N whose definition parent lies in owner P, with the
\* entry N -> k in P's parenting table, hir_owner_parent(N) returns exactly
\* the HirId (P, k).
C1_ParentReconstruction ==
    Called("hir_owner_parent") =>
        \A P \in DefIds : \A k \in LocalIds :
            ( /\ HasDefParent(CalledId)
              /\ DefParentHirId(CalledId).owner = P
              /\ ParentOwnerIndexed(CalledId)
              /\ ParentingEntry(CalledId) = Some(k) )
            => call.result = OkHirId(HirIdOf(P, k))

\* hir_owner_parent returned (P, k) for an entry k that is neither LocalId 0
\* nor the LocalId of the definition parent's own HirId.
C1_Witness ==
    /\ Called("hir_owner_parent")
    /\ HasDefParent(CalledId)
    /\ ParentOwnerIndexed(CalledId)
    /\ ParentingEntry(CalledId) # None
    /\ Unwrapped(ParentingEntry(CalledId)) # 0
    /\ Unwrapped(ParentingEntry(CalledId)) # DefParentHirId(CalledId).local_id
    /\ DefParentHirId(CalledId).local_id # 0
    /\ call.result = OkHirId(HirIdOf(DefParentHirId(CalledId).owner,
                                Unwrapped(ParentingEntry(CalledId))))

\* C2 as stated: an owner id with no entry in the parenting table of the
\* owner containing its definition parent gets the crate root id.
C2_Original ==
    ( /\ Called("hir_owner_parent")
      /\ HasDefParent(CalledId) => (ParentOwnerIndexed(CalledId) /\ ParentingEntry(CalledId) = None) )
    => call.result = OkHirId(CRATE_HIR_ID)

\* C2 (amended): hir_owner_parent returns the crate root id for a definition
\* without a definition parent; for a definition with a parent and no entry
\* in the parenting table it returns, whenever it returns, the HirId of the
\* definition parent unchanged.
C2_ParentFallback ==
    Called("hir_owner_parent") =>
        /\ ~HasDefParent(CalledId) => call.result = OkHirId(CRATE_HIR_ID)
        /\ ( /\ HasDefParent(CalledId)
             /\ ~call.result.panic
             /\ ParentingEntry(CalledId) = None )
           => call.result = OkHirId(DefParentHirId(CalledId))

\* hir_owner_parent returned, for an id without a parenting entry, the HirId
\* of its definition parent, which is not the crate root id.
C2_Witness ==
    /\ Called("hir_owner_parent")
    /\ HasDefParent(CalledId)
    /\ ParentOwnerIndexed(CalledId)
    /\ ParentingEntry(CalledId) = None
    /\ call.result = OkHirId(DefParentHirId(CalledId))
    /\ call.result # OkHirId(CRATE_HIR_ID)

\* C3: hir_owner_parent never terminates fatally, whatever the indexed data
\* (also when index_hir has no result for the parent's owner).
C3_NoFailure ==
    Called("hir_owner_parent") => ~call.result.panic

\* C4: the attributes lookup returns the recorded list when the owner has an
\* attribute table with an entry for the LocalId, and the empty sequence,
\* never a failure, when the owner has no owner info or the table has no entry.
C4_AttributeDefault ==
    Called("hir_attrs") =>
        LET info == owners[call.key[1]]
            id == call.key[2]
        IN  /\ ~call.result.panic
            /\ (info # None /\ id \in DOMAIN Unwrapped(info).attrs)
                   => call.result.attrs = Unwrapped(info).attrs[id]
            /\ info = None => call.result.attrs = << >>
            /\ (info # None /\ id \notin DOMAIN Unwrapped(info).attrs)
                   => call.result.attrs = << >>

\* The lookup returned the empty sequence for a LocalId missing from a table
\* that records a non-empty list for another LocalId.
C4_Witness ==
    /\ Called("hir_attrs")
    /\ owners[call.key[1]] # None
    /\ call.key[2] \notin DOMAIN Unwrapped(owners[call.key[1]]).attrs
    /\ \E k \in DOMAIN Unwrapped(owners[call.key[1]]).attrs :
           Unwrapped(owners[call.key[1]]).attrs[k] # << >>
    /\ call.result = OkAttrs(<< >>)

\* C5: an Owner returned by hir_owner(id) holds the node stored at LocalId 0
\* of the owner's OwnerNodes and that OwnerNodes' node_hash, and nothing
\* else: any owner with the same root slot and node_hash has the same summary.
C5_OwnerProjection ==
    (Called("hir_owner") /\ ~call.result.panic /\ call.result.owner # None) =>
        /\ RootSlotFilled(CalledId)
        /\ Some(Unwrapped(call.result.owner).node) = as_owner(RootNode(CalledId))
        /\ Unwrapped(call.result.owner).node_hash
               = Unwrapped(hir_index[CalledId]).nodes.node_hash
        /\ \A b \in DefIds :
               ( /\ RootSlotFilled(b)
                 /\ RootNode(b) = RootNode(CalledId)
                 /\ Unwrapped(hir_index[b]).nodes.node_hash
                        = Unwrapped(hir_index[CalledId]).nodes.node_hash )
               => hir_owner(b) = call.result

\* hir_owner returned a summary of an owner whose full hash differs from its
\* node_hash and which has a second node and a body.
C5_Witness ==
    /\ Called("hir_owner")
    /\ ~call.result.panic
    /\ call.result.owner # None
    /\ Unwrapped(hir_index[CalledId]).nodes.hash
           # Unwrapped(hir_index[CalledId]).nodes.node_hash
    /\ Len(Unwrapped(hir_index[CalledId]).nodes.nodes) > 1
    /\ Len(Unwrapped(hir_index[CalledId]).nodes.bodies) > 1
    /\ Unwrapped(call.result.owner).node_hash
           = Unwrapped(hir_index[CalledId]).nodes.node_hash

\* C6: hir_owner(id) returns absent when index_hir has no result for id,
\* terminates fatally when the slot of LocalId 0 is empty or holds a node
\* that is not an owner-kind node, and returns a summary otherwise.
C6_OwnerFailure ==
    Called("hir_owner") =>
        /\ hir_index[CalledId] = None => call.result = OkOwner(None)
        /\ (hir_index[CalledId] # None /\ ~RootIsOwnerKind(CalledId)) => call.result.panic
        /\ RootIsOwnerKind(CalledId) => (~call.result.panic /\ call.result.owner # None)

\* hir_owner terminated fatally on a root slot holding an expression.
C6_Witness ==
    /\ Called("hir_owner")
    /\ RootSlotFilled(CalledId)
    /\ RootNode(CalledId).kind = "Expr"
    /\ call.result.panic

\* C7: for a definition that owns a body, fn_arg_names returns the idents
\* bound by the body's parameter patterns in declaration order; for a
\* required trait method without a body it returns the declared idents.
C7_ArgNames ==
    Called("fn_arg_names") =>
        /\ BodyBearing(CalledId) =>
               /\ ~call.result.panic
               /\ Len(call.result.idents) = Len(BodyParams(CalledId))
               /\ \A i \in 1 .. Len(BodyParams(CalledId)) :
                      call.result.idents[i] = BodyParams(CalledId)[i].binding
        /\ RequiredSignature(CalledId) =>
               call.result = OkIdents(Unwrapped(DefNode(CalledId).required))

\* fn_arg_names returned two distinct idents, in order, for a body with two
\* parameters.
C7_Witness ==
    /\ Called("fn_arg_names")
    /\ BodyBearing(CalledId)
    /\ Len(BodyParams(CalledId)) = 2
    /\ BodyParams(CalledId)[1].binding # BodyParams(CalledId)[2].binding
    /\ call.result = OkIdents(<<BodyParams(CalledId)[1].binding, BodyParams(CalledId)[2].binding>>)

\* C8: fn_arg_names terminates fatally exactly when the definition neither
\* owns a body nor is a required trait-method signature.
C8_ArgNamesFailure ==
    Called("fn_arg_names") =>
        (call.result.panic <=> ~(BodyBearing(CalledId) \/ RequiredSignature(CalledId)))

\* fn_arg_names terminated fatally on an item that has a node but no body.
C8_Witness ==
    /\ Called("fn_arg_names")
    /\ DefNodeExists(CalledId)
    /\ DefNode(CalledId).kind = "Item"
    /\ DefNode(CalledId).body = None
    /\ call.result.panic

\* The providers of the registry and their keys.
Queries ==
    {<<p, <<id>>>> : p \in {"hir_owner", "hir_owner_nodes", "hir_owner_parent", "fn_arg_names"},
                     id \in DefIds}
    \cup {<<"hir_attrs", <<id, l>>>> : id \in DefIds, l \in LocalIds}

\* What a provider returns for a key in the current state.
Answer(q) ==
    CASE q[1] = "hir_owner" -> hir_owner(q[2][1])
      [] q[1] = "hir_owner_nodes" -> hir_owner_nodes(q[2][1])
      [] q[1] = "hir_owner_parent" -> hir_owner_parent(q[2][1])
      [] q[1] = "fn_arg_names" -> fn_arg_names(q[2][1])
      [] q[1] = "hir_attrs" -> OkAttrs(AttributeMap_get(hir_attrs(q[2][1]), q[2][2]))

\* The latest invocation, when it is of a provider of the registry.
CalledQuery == <<call.provider, call.key>>
\* Asking the latest invocation's provider for its key again gives the
\* result that invocation returned.
CallAnswered == CalledQuery \in Queries => Answer(CalledQuery) = call.result

OwnerValues(o) ==
    {MkOwner(Unwrapped(as_owner(Unwrapped(ns.nodes[1]).node)), nh) :
        ns \in {x \in OwnerNodesOf(o) :
                   /\ Len(x.nodes) >= 1
                   /\ x.nodes[1] # None
                   /\ Unwrapped(x.nodes[1]).node.kind \in OwnerKinds},
        nh \in Fingerprints}

\* C10: the stable hash of an Owner is its node_hash alone (any Owner with
\* the same node_hash, whatever its node, hashes identically), and the stable
\* hash of an OwnerNodes is its hash field alone (any OwnerNodes with the same
\* hash, whatever its node_hash, nodes and bodies, hashes identically).
C10_WrapperIdentity ==
    /\ Called("Owner::hash_stable") =>
           /\ call.result.hasher = <<Unwrapped(hir_index[CalledId]).nodes.node_hash>>
           /\ \A o \in DefIds : \A w \in OwnerValues(o) :
                  w.node_hash = Unwrapped(hir_index[CalledId]).nodes.node_hash
                      => Owner_hash_stable(w, << >>) = call.result.hasher
    /\ Called("OwnerNodes::hash_stable") =>
           /\ call.result.hasher = <<Unwrapped(hir_index[CalledId]).nodes.hash>>
           /\ \A o \in DefIds : \A ns \in OwnerNodesOf(o) :
                  ns.hash = Unwrapped(hir_index[CalledId]).nodes.hash
                      => OwnerNodes_hash_stable(ns, << >>) = call.result.hasher

\* An Owner was hashed while another owner of the crate has the same
\* node_hash and a different root node, and both hash identically.
C10_Witness ==
    /\ Called("Owner::hash_stable")
    /\ \E b \in DefIds :
           /\ ~hir_owner(b).panic
           /\ hir_owner(b).owner # None
           /\ Unwrapped(hir_owner(b).owner).node # Unwrapped(hir_owner(CalledId).owner).node
           /\ Unwrapped(hir_owner(b).owner).node_hash
                  = Unwrapped(hir_owner(CalledId).owner).node_hash
           /\ Owner_hash_stable(Unwrapped(hir_owner(b).owner), << >>) = call.result.hasher

====
